---- MODULE Spec2Model ----
(***************************************************************************)
(* Model of the program-progression controller of the Gamified-Engine      *)
(* backend: the programs table and its dependent tables, and the request   *)
(* handlers of routers/programs.py, routers/templates.py and               *)
(* routers/export.py that create programs, add the step-gating entities,   *)
(* complete the steps and generate the program document.                   *)
(*                                                                         *)
(* Every handler is one action: it runs in its own database session from   *)
(* its first read to its last commit, and `last` records the request and   *)
(* its response.                                                           *)
(***************************************************************************)
EXTENDS Integers, FiniteSets, Sequences, TLC

\* ---------------------------------------------------------------- bounds
MaxPrograms == 2
MaxStakeholders == 1
MaxOutcomes == 1
MaxIndicators == 1
MaxProgramModels == 1
MaxDocuments == 1

\* ------------------------------------------------------------ input sets
ProgramIds == 1..MaxPrograms
StakeholderIds == 1..MaxStakeholders
OutcomeIds == 1..MaxOutcomes
IndicatorIds == 1..MaxIndicators
ProgramModelIds == 1..MaxProgramModels
DocumentIds == 1..MaxDocuments

\* the catalog of proven models is seed data; "m0" is an id not in it
ProvenModelIds == {"m1"}
MissingModel == "m0"

\* ProblemStatementUpdate.is_completed: a boolean, or the field is not sent
IsCompletedInputs == {"unset", "false", "true"}

\* data/program_templates.json: a template lists stakeholders and outcomes,
\* each outcome with its indicators; "t0" is an id of no template
Templates ==
    [ t1 |-> [stakeholders |-> 0, outcomes |-> <<>>],
      t2 |-> [stakeholders |-> 1, outcomes |-> <<0>>],
      t3 |-> [stakeholders |-> 1, outcomes |-> <<1>>] ]
TemplateIds == {"t0", "t1", "t2", "t3"}

\* ------------------------------------------------------------------ state
VARIABLES
    programs,         \* program id -> [current_step, status]
    problems,         \* program id -> [is_completed, rows]: its problem statement
                      \* and the number of problem_statements rows it has
    stakeholders,     \* stakeholder id -> program id
    program_models,   \* association id -> [program_id, proven_model_id]
    outcomes,         \* outcome id -> program id
    indicators,       \* indicator id -> outcome id
    documents,        \* generated document id -> program id
    finalized,        \* programs for which generate_pdf ran at current_step 5
    last,             \* the last request and its response
    sessions,         \* request id -> the concurrent request and its database session
    catalog,          \* table proven_models, in storage order
    search,           \* the last search request and its result
    comments_store,   \* comment id -> [program_id, is_resolved]
    versions_store,   \* version id -> [program_id, version_number]
    version_counters  \* program id -> latest version number

vars == <<programs, problems, stakeholders, program_models, outcomes,
          indicators, documents, finalized, last, sessions, catalog, search,
          comments_store, versions_store, version_counters>>

\* ------------------------------------------------------ the model catalog
\* a text is a sequence of one-character strings
\* ProvenModel rows that a catalog may hold: name, description, themes,
\* target_outcomes and embedding (<<>>: NULL)
ModelPool ==
    [ m1 |-> [name |-> <<"A", "b">>, description |-> <<"c">>,
              themes |-> {"FLN"}, target_outcomes |-> {<<"b">>},
              embedding |-> <<1, 0>>],
      m2 |-> [name |-> <<"c">>, description |-> <<"b", "a">>,
              themes |-> {"STEM"}, target_outcomes |-> {<<"a", "b", "c">>},
              embedding |-> <<1, 1>>],
      m3 |-> [name |-> <<"d">>, description |-> <<"d">>,
              themes |-> {"FLN", "STEM"}, target_outcomes |-> {<<"c", "a", "d">>},
              embedding |-> <<>>],
      m4 |-> [name |-> <<"B">>, description |-> <<"d">>,
              themes |-> {}, target_outcomes |-> {},
              embedding |-> <<2, 0>>] ]

\* the seeded catalog of the progression specifications: the row ProvenModelIds names
SeedCatalog == <<"m1">>

\* no search request has been answered
NoSearch ==
    [op |-> "none", query |-> <<>>, limit |-> 0, theme |-> "",
     embed |-> [status |-> "none", vector |-> <<>>],
     path |-> "none", raised |-> FALSE, code |-> 0, result |-> <<>>]

\* the value standing for "no such program" in a request record
NoProgram == [current_step |-> 0, status |-> "absent"]

\* db.get(Program, program_id)
ProgramOf(p) == IF p \in DOMAIN programs THEN programs[p] ELSE NoProgram

\* Program(...) with the column defaults status="draft", current_step=1
NewProgram == [current_step |-> 1, status |-> "draft"]

\* select(Stakeholder).where(Stakeholder.program_id == program_id)
StakeholdersOf(p) == {s \in DOMAIN stakeholders : stakeholders[s] = p}

\* select(Outcome).where(Outcome.program_id == program_id)
OutcomesOf(p) == {o \in DOMAIN outcomes : outcomes[o] = p}

\* faulty variant: the gate counts the stakeholders of every program
NoStakeholder_AnyProgram(p) == DOMAIN stakeholders = {}

\* if not result.scalars().first(): no stakeholder of the program exists
NoStakeholder(p) == StakeholdersOf(p) = {}

\* faulty variant: the gate is skipped
NoOutcome_Never(p) == FALSE

\* faulty variant: the gate asks for an outcome that has an indicator
NoOutcome_NeedsIndicator(p) ==
    {i \in DOMAIN indicators : indicators[i] \in OutcomesOf(p)} = {}

\* faulty variant: an outcome of any program passes the gate
NoOutcome_AnyProgram(p) == DOMAIN outcomes = {}

\* if not outcomes: no outcome of the program exists
NoOutcome(p) == OutcomesOf(p) = {}

\* select(Indicator).where(Indicator.outcome_id.in_(outcome_ids))
IndicatorsOf(p) == {i \in DOMAIN indicators : indicators[i] \in OutcomesOf(p)}

\* uuid4(): a fresh key, here the least unused one
Min(S) == CHOOSE x \in S : \A y \in S : x <= y
Fresh(ids, used) == Min(ids \ used)

\* the first n unused keys, in increasing order
RECURSIVE FreshSeq(_, _, _)
FreshSeq(ids, used, n) ==
    IF n = 0 THEN <<>>
    ELSE <<Fresh(ids, used)>> \o FreshSeq(ids, used \cup {Fresh(ids, used)}, n - 1)

Range(f) == {f[x] : x \in DOMAIN f}

RECURSIVE Sum(_)
Sum(s) == IF s = <<>> THEN 0 ELSE Head(s) + Sum(Tail(s))

\* the request/response record of a handler: the operation, the program it
\* names, the step it completes (0: none), its is_completed argument, the HTTP
\* status code, the program row before and after, and the program returned.
\* repeat_of is the current_step the preceding request read when that request
\* was this same request (operation, program, argument), and 0 otherwise.
Response(op, p, step, arg, code, pre, post, body) ==
    [op |-> op, program_id |-> p, step |-> step, arg |-> arg, code |-> code,
     pre |-> pre, post |-> post, body |-> body,
     repeat_of |-> IF last.op = op /\ last.program_id = p /\ last.arg = arg
                   THEN last.pre.current_step ELSE 0]

Init ==
    /\ programs = <<>>
    /\ problems = <<>>
    /\ stakeholders = <<>>
    /\ program_models = <<>>
    /\ outcomes = <<>>
    /\ indicators = <<>>
    /\ documents = <<>>
    /\ finalized = {}
    /\ last = [op |-> "init", program_id |-> 0, step |-> 0, arg |-> "unset",
               code |-> 0, pre |-> NoProgram, post |-> NoProgram,
               body |-> NoProgram, repeat_of |-> 0]
    /\ sessions = <<>>
    /\ catalog = SeedCatalog
    /\ search = NoSearch
    /\ comments_store = <<>>
    /\ versions_store = <<>>
    /\ version_counters = <<>>

\* POST /api/programs/
\* (the users row it inserts for an unknown user_id is outside the model: no
\* modelled handler reads table users)
create_program ==
    /\ DOMAIN programs # ProgramIds
    /\ LET id == Fresh(ProgramIds, DOMAIN programs) IN
        /\ programs' = programs @@ (id :> NewProgram)
        /\ last' = Response("create_program", id, 0, "unset", 201,
                            NoProgram, NewProgram, NewProgram)
    /\ UNCHANGED <<problems, stakeholders, program_models, outcomes,
                   indicators, documents, finalized>>
    /\ UNCHANGED <<sessions, catalog, search>>
    /\ UNCHANGED <<comments_store, versions_store, version_counters>>

\* Replicate(x, n): n copies of x
RECURSIVE Replicate(_, _)
Replicate(x, n) == IF n = 0 THEN <<>> ELSE <<x>> \o Replicate(x, n - 1)

\* the outcome owning each indicator of a template, in creation order:
\* counts[k] indicators go to outcome oids[k]
RECURSIVE IndicatorOwners(_, _)
IndicatorOwners(counts, oids) ==
    IF counts = <<>> THEN <<>>
    ELSE Replicate(Head(oids), Head(counts)) \o IndicatorOwners(Tail(counts), Tail(oids))

\* the rows a sequence of fresh keys adds to a table
NewRows(keys, values) ==
    [k \in Range(keys) |-> values[CHOOSE n \in 1..Len(keys) : keys[n] = k]]

\* POST /api/templates/{template_id}/create-program
create_program_from_template(t) ==
    /\ IF t \notin DOMAIN Templates
       THEN \* next(...) finds no template
            /\ last' = Response("create_program_from_template", 0, 0, "unset", 404,
                                NoProgram, NoProgram, NoProgram)
            /\ UNCHANGED <<programs, problems, stakeholders,
                           program_models, outcomes, indicators, documents, finalized>>
       ELSE LET tmpl == Templates[t]
                nind == Sum(tmpl.outcomes)
            IN  /\ DOMAIN programs # ProgramIds
                /\ Cardinality(DOMAIN stakeholders) + tmpl.stakeholders <= MaxStakeholders
                /\ Cardinality(DOMAIN outcomes) + Len(tmpl.outcomes) <= MaxOutcomes
                /\ Cardinality(DOMAIN indicators) + nind <= MaxIndicators
                /\ LET id == Fresh(ProgramIds, DOMAIN programs)
                       sids == FreshSeq(StakeholderIds, DOMAIN stakeholders, tmpl.stakeholders)
                       oids == FreshSeq(OutcomeIds, DOMAIN outcomes, Len(tmpl.outcomes))
                       iids == FreshSeq(IndicatorIds, DOMAIN indicators, nind)
                   IN  /\ programs' = programs @@ (id :> [current_step |-> 1, status |-> "draft"])
                       /\ problems' = problems @@ (id :> [is_completed |-> "true", rows |-> 1])
                       /\ stakeholders' = stakeholders @@ [s \in Range(sids) |-> id]
                       /\ outcomes' = outcomes @@ [o \in Range(oids) |-> id]
                       /\ indicators' = indicators @@
                              NewRows(iids, IndicatorOwners(tmpl.outcomes, oids))
                       /\ last' = Response("create_program_from_template", id, 0, "unset", 200,
                                           NoProgram, programs'[id], NoProgram)
                /\ UNCHANGED <<program_models, documents, finalized>>
    /\ UNCHANGED <<sessions, catalog, search>>
    /\ UNCHANGED <<comments_store, versions_store, version_counters>>

\* POST /api/programs/{program_id}/problem
create_problem_statement(p) ==
    /\ IF p \notin DOMAIN programs
       THEN /\ last' = Response("create_problem_statement", p, 0, "unset", 404,
                                NoProgram, NoProgram, NoProgram)
            /\ UNCHANGED problems
       ELSE IF p \in DOMAIN problems
       THEN /\ last' = Response("create_problem_statement", p, 0, "unset", 400,
                                programs[p], programs[p], NoProgram)
            /\ UNCHANGED problems
       ELSE /\ problems' = problems @@ (p :> [is_completed |-> "false", rows |-> 1])
            /\ last' = Response("create_problem_statement", p, 0, "unset", 201,
                                programs[p], programs[p], NoProgram)
    /\ UNCHANGED <<programs, stakeholders, program_models, outcomes,
                   indicators, documents, finalized>>
    /\ UNCHANGED <<sessions, catalog, search>>
    /\ UNCHANGED <<comments_store, versions_store, version_counters>>

\* setattr(problem, "is_completed", value) for the keys of
\* data.model_dump(exclude_unset=True)
SetIsCompleted(stored, ic) == IF ic = "unset" THEN stored ELSE ic

\* faulty variant: only the stored flag is tested
MarkedCompleted_StoredOnly(ic, stored) == stored = "true"

\* if data.is_completed and problem.is_completed
MarkedCompleted(ic, stored) == ic = "true" /\ stored = "true"

\* faulty variant: the status is set to in_progress at whatever step the program is
AdvanceFromProblem_StatusAlways(prog) ==
    IF prog.current_step = 1
    THEN [current_step |-> 2, status |-> "in_progress"]
    ELSE [prog EXCEPT !.status = "in_progress"]

\* faulty variant: the test of current_step is dropped
AdvanceFromProblem_NoGuard(prog) == [current_step |-> 2, status |-> "in_progress"]

\* the step 1 -> 2 transition of update_problem_statement
AdvanceFromProblem(prog) ==
    IF prog.current_step = 1
    THEN [current_step |-> 2, status |-> "in_progress"]
    ELSE prog

\* PATCH /api/programs/{program_id}/problem
update_problem_statement(p, ic) ==
    /\ IF p \notin DOMAIN problems
       THEN /\ last' = Response("update_problem_statement", p, 1, ic, 404,
                                ProgramOf(p), ProgramOf(p), NoProgram)
            /\ UNCHANGED <<problems, programs>>
       ELSE LET stored == SetIsCompleted(problems[p].is_completed, ic) IN
            /\ problems' = [problems EXCEPT ![p].is_completed = stored]
            /\ programs' = IF MarkedCompleted(ic, stored) /\ p \in DOMAIN programs
                           THEN [programs EXCEPT ![p] = AdvanceFromProblem(@)]
                           ELSE programs
            /\ last' = Response("update_problem_statement", p, 1, ic,
                                200, ProgramOf(p),
                                IF p \in DOMAIN programs' THEN programs'[p] ELSE NoProgram,
                                NoProgram)
    /\ UNCHANGED <<stakeholders, program_models, outcomes, indicators,
                   documents, finalized>>
    /\ UNCHANGED <<sessions, catalog, search>>
    /\ UNCHANGED <<comments_store, versions_store, version_counters>>

\* POST /api/programs/{program_id}/stakeholders
add_stakeholder(p) ==
    /\ IF p \notin DOMAIN programs
       THEN /\ last' = Response("add_stakeholder", p, 0, "unset", 404,
                                NoProgram, NoProgram, NoProgram)
            /\ UNCHANGED stakeholders
       ELSE /\ DOMAIN stakeholders # StakeholderIds
            /\ stakeholders' = stakeholders @@
                   (Fresh(StakeholderIds, DOMAIN stakeholders) :> p)
            /\ last' = Response("add_stakeholder", p, 0, "unset", 201,
                                programs[p], programs[p], NoProgram)
    /\ UNCHANGED <<programs, problems, program_models, outcomes,
                   indicators, documents, finalized>>
    /\ UNCHANGED <<sessions, catalog, search>>
    /\ UNCHANGED <<comments_store, versions_store, version_counters>>

\* the table without the row of key k
Without(table, k) == [x \in DOMAIN table \ {k} |-> table[x]]

\* DELETE /api/programs/stakeholders/{stakeholder_id}
delete_stakeholder(s) ==
    /\ IF s \notin DOMAIN stakeholders
       THEN /\ last' = Response("delete_stakeholder", 0, 0, "unset", 404,
                                NoProgram, NoProgram, NoProgram)
            /\ UNCHANGED stakeholders
       ELSE /\ stakeholders' = Without(stakeholders, s)
            /\ last' = Response("delete_stakeholder", stakeholders[s], 0, "unset", 204,
                                ProgramOf(stakeholders[s]), ProgramOf(stakeholders[s]),
                                NoProgram)
    /\ UNCHANGED <<programs, problems, program_models, outcomes,
                   indicators, documents, finalized>>
    /\ UNCHANGED <<sessions, catalog, search>>
    /\ UNCHANGED <<comments_store, versions_store, version_counters>>

\* faulty variant: the test of current_step is dropped
AdvanceFrom_NoGuard(prog, n) == [prog EXCEPT !.current_step = n + 1]

\* faulty variant: the step is incremented whatever it is, up to the last step
AdvanceFrom_Always(prog, n) ==
    IF prog.current_step < 5 THEN [prog EXCEPT !.current_step = @ + 1] ELSE prog

\* if program.current_step == n: program.current_step = n + 1
AdvanceFrom(prog, n) ==
    IF prog.current_step = n THEN [prog EXCEPT !.current_step = n + 1] ELSE prog

\* POST /api/programs/{program_id}/stakeholders/complete
complete_stakeholder_step(p) ==
    /\ IF p \notin DOMAIN programs
       THEN /\ last' = Response("complete_stakeholder_step", p, 2, "unset", 404,
                                NoProgram, NoProgram, NoProgram)
            /\ UNCHANGED programs
       ELSE IF NoStakeholder(p)
       THEN /\ last' = Response("complete_stakeholder_step", p, 2, "unset", 400,
                                programs[p], programs[p], NoProgram)
            /\ UNCHANGED programs
       ELSE /\ programs' = [programs EXCEPT ![p] = AdvanceFrom(@, 2)]
            /\ last' = Response("complete_stakeholder_step", p, 2, "unset", 200,
                                programs[p], programs'[p], programs'[p])
    /\ UNCHANGED <<problems, stakeholders, program_models, outcomes,
                   indicators, documents, finalized>>
    /\ UNCHANGED <<sessions, catalog, search>>
    /\ UNCHANGED <<comments_store, versions_store, version_counters>>

\* POST /api/programs/{program_id}/models
add_proven_model_to_program(p, m) ==
    /\ IF p \notin DOMAIN programs
       THEN /\ last' = Response("add_proven_model_to_program", p, 0, "unset", 404,
                                NoProgram, NoProgram, NoProgram)
            /\ UNCHANGED program_models
       ELSE IF m \notin ProvenModelIds
       THEN /\ last' = Response("add_proven_model_to_program", p, 0, "unset", 404,
                                programs[p], programs[p], NoProgram)
            /\ UNCHANGED program_models
       ELSE /\ DOMAIN program_models # ProgramModelIds
            /\ program_models' = program_models @@
                   (Fresh(ProgramModelIds, DOMAIN program_models) :>
                       [program_id |-> p, proven_model_id |-> m])
            /\ last' = Response("add_proven_model_to_program", p, 0, "unset", 201,
                                programs[p], programs[p], NoProgram)
    /\ UNCHANGED <<programs, problems, stakeholders, outcomes,
                   indicators, documents, finalized>>
    /\ UNCHANGED <<sessions, catalog, search>>
    /\ UNCHANGED <<comments_store, versions_store, version_counters>>

\* faulty variant: step 3 is gated like steps 2 and 4, on an association of the program
complete_models_step_Gated(p) ==
    /\ IF p \notin DOMAIN programs
       THEN /\ last' = Response("complete_models_step", p, 3, "unset", 404,
                                NoProgram, NoProgram, NoProgram)
            /\ UNCHANGED programs
       ELSE IF \A a \in DOMAIN program_models : program_models[a].program_id # p
       THEN /\ last' = Response("complete_models_step", p, 3, "unset", 400,
                                programs[p], programs[p], NoProgram)
            /\ UNCHANGED programs
       ELSE /\ programs' = [programs EXCEPT ![p] =
                               IF @.current_step = 3
                               THEN [@ EXCEPT !.current_step = 4] ELSE @]
            /\ last' = Response("complete_models_step", p, 3, "unset", 200,
                                programs[p], programs'[p], programs'[p])
    /\ UNCHANGED <<problems, stakeholders, program_models, outcomes,
                   indicators, documents, finalized>>
    /\ UNCHANGED <<sessions, catalog, search>>
    /\ UNCHANGED <<comments_store, versions_store, version_counters>>

\* POST /api/programs/{program_id}/models/complete
complete_models_step(p) ==
    /\ IF p \notin DOMAIN programs
       THEN /\ last' = Response("complete_models_step", p, 3, "unset", 404,
                                NoProgram, NoProgram, NoProgram)
            /\ UNCHANGED programs
       ELSE /\ programs' = [programs EXCEPT ![p] = AdvanceFrom(@, 3)]
            /\ last' = Response("complete_models_step", p, 3, "unset", 200,
                                programs[p], programs'[p], programs'[p])
    /\ UNCHANGED <<problems, stakeholders, program_models, outcomes,
                   indicators, documents, finalized>>
    /\ UNCHANGED <<sessions, catalog, search>>
    /\ UNCHANGED <<comments_store, versions_store, version_counters>>

\* POST /api/programs/{program_id}/outcomes
create_outcome(p) ==
    /\ IF p \notin DOMAIN programs
       THEN /\ last' = Response("create_outcome", p, 0, "unset", 404,
                                NoProgram, NoProgram, NoProgram)
            /\ UNCHANGED outcomes
       ELSE /\ DOMAIN outcomes # OutcomeIds
            /\ outcomes' = outcomes @@ (Fresh(OutcomeIds, DOMAIN outcomes) :> p)
            /\ last' = Response("create_outcome", p, 0, "unset", 201,
                                programs[p], programs[p], NoProgram)
    /\ UNCHANGED <<programs, problems, stakeholders, program_models,
                   indicators, documents, finalized>>
    /\ UNCHANGED <<sessions, catalog, search>>
    /\ UNCHANGED <<comments_store, versions_store, version_counters>>

\* POST /api/programs/outcomes/{outcome_id}/indicators
create_indicator(o) ==
    /\ IF o \notin DOMAIN outcomes
       THEN /\ last' = Response("create_indicator", 0, 0, "unset", 404,
                                NoProgram, NoProgram, NoProgram)
            /\ UNCHANGED indicators
       ELSE /\ DOMAIN indicators # IndicatorIds
            /\ indicators' = indicators @@ (Fresh(IndicatorIds, DOMAIN indicators) :> o)
            /\ last' = Response("create_indicator", outcomes[o], 0, "unset", 201,
                                ProgramOf(outcomes[o]), ProgramOf(outcomes[o]), NoProgram)
    /\ UNCHANGED <<programs, problems, stakeholders, program_models,
                   outcomes, documents, finalized>>
    /\ UNCHANGED <<sessions, catalog, search>>
    /\ UNCHANGED <<comments_store, versions_store, version_counters>>

\* POST /api/programs/{program_id}/indicators/complete
complete_indicators_step(p) ==
    /\ IF p \notin DOMAIN programs
       THEN /\ last' = Response("complete_indicators_step", p, 4, "unset", 404,
                                NoProgram, NoProgram, NoProgram)
            /\ UNCHANGED programs
       ELSE IF NoOutcome(p)
       THEN /\ last' = Response("complete_indicators_step", p, 4, "unset", 400,
                                programs[p], programs[p], NoProgram)
            /\ UNCHANGED programs
       ELSE /\ programs' = [programs EXCEPT ![p] = AdvanceFrom(@, 4)]
            /\ last' = Response("complete_indicators_step", p, 4, "unset", 200,
                                programs[p], programs'[p], programs'[p])
    /\ UNCHANGED <<problems, stakeholders, program_models, outcomes,
                   indicators, documents, finalized>>
    /\ UNCHANGED <<sessions, catalog, search>>
    /\ UNCHANGED <<comments_store, versions_store, version_counters>>

\* faulty variant: the program is marked completed whatever its step
Finalize_Always(prog) == [prog EXCEPT !.status = "completed"]

\* faulty variant: the program is marked completed one step early
Finalize_FromStep4(prog) ==
    IF prog.current_step >= 4 THEN [prog EXCEPT !.status = "completed"] ELSE prog

\* "Mark program as completed if on step 5"
Finalize(prog) ==
    IF prog.current_step = 5 THEN [prog EXCEPT !.status = "completed"] ELSE prog

\* faulty variant: the document row is recorded before the program is looked up
generate_pdf_RecordsFirst(p) ==
    /\ IF p \notin DOMAIN programs
       THEN /\ last' = Response("generate_pdf", p, 5, "unset", 404,
                                NoProgram, NoProgram, NoProgram)
            /\ documents' = IF DOMAIN documents # DocumentIds
                            THEN documents @@ (Fresh(DocumentIds, DOMAIN documents) :> p)
                            ELSE documents
            /\ UNCHANGED <<programs, finalized>>
       ELSE /\ DOMAIN documents # DocumentIds
            /\ documents' = documents @@ (Fresh(DocumentIds, DOMAIN documents) :> p)
            /\ programs' = [programs EXCEPT ![p] = Finalize(@)]
            /\ finalized' = IF programs[p].current_step = 5
                            THEN finalized \cup {p} ELSE finalized
            /\ last' = Response("generate_pdf", p, 5, "unset", 200,
                                programs[p], programs'[p], NoProgram)
    /\ UNCHANGED <<problems, stakeholders, program_models, outcomes,
                   indicators>>
    /\ UNCHANGED <<sessions, catalog, search>>
    /\ UNCHANGED <<comments_store, versions_store, version_counters>>

\* GET /api/export/{program_id}/pdf
generate_pdf(p) ==
    /\ IF p \notin DOMAIN programs
       THEN /\ last' = Response("generate_pdf", p, 5, "unset", 404,
                                NoProgram, NoProgram, NoProgram)
            /\ UNCHANGED <<programs, documents, finalized>>
       ELSE /\ DOMAIN documents # DocumentIds
            /\ documents' = documents @@ (Fresh(DocumentIds, DOMAIN documents) :> p)
            /\ programs' = [programs EXCEPT ![p] = Finalize(@)]
            /\ finalized' = IF programs[p].current_step = 5
                            THEN finalized \cup {p} ELSE finalized
            /\ last' = Response("generate_pdf", p, 5, "unset", 200,
                                programs[p], programs'[p], NoProgram)
    /\ UNCHANGED <<problems, stakeholders, program_models, outcomes,
                   indicators>>
    /\ UNCHANGED <<sessions, catalog, search>>
    /\ UNCHANGED <<comments_store, versions_store, version_counters>>

Next ==
    \/ create_program
    \/ \E t \in TemplateIds : create_program_from_template(t)
    \/ \E p \in ProgramIds : create_problem_statement(p)
    \/ \E p \in ProgramIds, ic \in IsCompletedInputs : update_problem_statement(p, ic)
    \/ \E p \in ProgramIds : add_stakeholder(p)
    \/ \E s \in StakeholderIds : delete_stakeholder(s)
    \/ \E p \in ProgramIds : complete_stakeholder_step(p)
    \/ \E p \in ProgramIds, m \in ProvenModelIds \cup {MissingModel} :
           add_proven_model_to_program(p, m)
    \/ \E p \in ProgramIds : complete_models_step(p)
    \/ \E p \in ProgramIds : create_outcome(p)
    \/ \E o \in OutcomeIds : create_indicator(o)
    \/ \E p \in ProgramIds : complete_indicators_step(p)
    \/ \E p \in ProgramIds : generate_pdf(p)

Spec == Init /\ [][Next]_vars


\* ====================================================================
\* Properties of the progression controller
\* ====================================================================

\* a request that is complete_step(p, n): n is the step field of the record
CompleteStepCall(r) ==
    \/ r.op = "update_problem_statement" /\ r.arg = "true"
    \/ r.op \in {"complete_stakeholder_step", "complete_models_step",
                 "complete_indicators_step"}

\* the request named an existing program
OnProgram(r) == r.pre # NoProgram

\* the gating entity that the handler of step n looks up exists: the problem
\* statement (step 1), a stakeholder (step 2), an outcome (step 4)
GateEntityExists(p, n) ==
    CASE n = 1 -> p \in DOMAIN problems
      [] n = 2 -> \E s \in DOMAIN stakeholders : stakeholders[s] = p
      [] n = 3 -> TRUE
      [] n = 4 -> \E o \in DOMAIN outcomes : outcomes[o] = p

\* C1: under any sequence of step completions interleaved with entity
\* additions and document generation, current_step of a program never
\* decreases and every change of it is an increase of exactly one.
C1_StepMonotone ==
    [][\A p \in DOMAIN programs :
          /\ p \in DOMAIN programs'
          /\ programs'[p].current_step >= programs[p].current_step
          /\ programs'[p].current_step # programs[p].current_step
                => programs'[p].current_step = programs[p].current_step + 1]_vars

\* a completion has advanced a program to step 5 after a document was
\* generated for it at an earlier step
C1_Witness ==
    /\ CompleteStepCall(last) /\ last.code = 200
    /\ last.pre.current_step = 4
    /\ last.post.current_step = 5
    /\ \E d \in DOMAIN documents : documents[d] = last.program_id
    /\ StakeholdersOf(last.program_id) # {}

\* C2: complete_step(p, n) called twice in immediate succession, the first
\* call at current_step = n with the gate satisfied, advances current_step
\* by exactly one: the second call leaves current_step and status as the
\* first call left them.
C2_TwiceAdvancesOnce ==
    (/\ CompleteStepCall(last)
     /\ last.repeat_of = last.step
     /\ GateEntityExists(last.program_id, last.step))
        => /\ last.code = 200
           /\ last.pre.current_step = last.step + 1
           /\ last.post = last.pre
           /\ programs[last.program_id] = last.pre

\* the second of two identical completion requests has been answered
C2_Witness ==
    /\ CompleteStepCall(last) /\ last.code = 200
    /\ last.repeat_of = last.step
    /\ last.step = 2
    /\ programs[last.program_id].current_step = 3

\* C3: complete_step(p, n) on a program whose current_step is not n leaves
\* current_step and status of the program unchanged, whatever the response.
C3_StaleIsNoOp ==
    (CompleteStepCall(last) /\ OnProgram(last) /\ last.pre.current_step # last.step)
        => /\ last.post = last.pre
           /\ programs[last.program_id] = last.pre

\* step 1 has been completed again on a program that is already at step 3
C3_Witness ==
    /\ last.op = "update_problem_statement" /\ last.arg = "true"
    /\ last.code = 200
    /\ last.pre.current_step = 3
    /\ last.post.current_step = 3

\* C4 as claimed: complete_step(p, n) with current_step # n is a successful
\* no-op for every state of the gating entities.
C4_StaleAlwaysSucceeds ==
    (CompleteStepCall(last) /\ OnProgram(last) /\ last.pre.current_step # last.step)
        => /\ last.code = 200
           /\ last.post = last.pre

\* C4 (amended): complete_step(p, n) with current_step # n never changes the
\* program; it is answered 200 with the current program when the gating
\* entity of step n exists, and is rejected (400; 404 for a missing problem
\* statement) when it does not.
C4_StaleSucceedsIfGateEntity ==
    (CompleteStepCall(last) /\ OnProgram(last) /\ last.pre.current_step # last.step)
        => /\ last.post = last.pre
           /\ last.code = IF GateEntityExists(last.program_id, last.step) THEN 200
                          ELSE IF last.step = 1 THEN 404 ELSE 400
           /\ (last.code = 200 /\ last.step >= 2)
                 => last.body = programs[last.program_id]

\* step 4 has been completed on a program that is not at step 4 and has no
\* outcome: the request is rejected
C4_Witness ==
    /\ last.op = "complete_indicators_step"
    /\ OnProgram(last) /\ last.pre.current_step # 4
    /\ \A o \in DOMAIN outcomes : outcomes[o] # last.program_id
    /\ last.code = 400

\* C5: complete_step(p, 2) at current_step = 2 is rejected with 400 and
\* changes nothing when p has no stakeholder, and sets current_step to 3
\* when p has one; stakeholders of other programs do not count.
C5_StakeholderGate ==
    (last.op = "complete_stakeholder_step" /\ last.pre.current_step = 2)
        => IF \A s \in DOMAIN stakeholders : stakeholders[s] # last.program_id
           THEN last.code = 400 /\ last.post = last.pre
                /\ programs[last.program_id] = last.pre
           ELSE last.code = 200
                /\ last.post = [last.pre EXCEPT !.current_step = 3]
                /\ programs[last.program_id] = last.post

\* step 2 is rejected for a program without stakeholders while another
\* program has one
C5_Witness ==
    /\ last.op = "complete_stakeholder_step" /\ last.pre.current_step = 2
    /\ last.code = 400
    /\ \E s \in DOMAIN stakeholders : stakeholders[s] # last.program_id

C7_ModelsStepUngated ==
    (last.op = "complete_models_step" /\ last.pre.current_step = 3)
        => /\ last.code = 200
           /\ last.post = [last.pre EXCEPT !.current_step = 4]
           /\ programs[last.program_id] = last.post

\* step 3 has succeeded for a program without any model association
C7_Witness ==
    /\ last.op = "complete_models_step" /\ last.pre.current_step = 3
    /\ last.post.current_step = 4
    /\ \A a \in DOMAIN program_models :
          program_models[a].program_id # last.program_id

C9_StatusFollowsStep ==
    \A p \in DOMAIN programs :
        /\ programs[p].status = "draft" <=> programs[p].current_step = 1
        /\ programs[p].current_step >= 2
              => programs[p].status \in {"in_progress", "completed"}
        /\ programs[p].status = "completed"
              => programs[p].current_step = 5 /\ p \in finalized

\* a completed program next to a draft one created from a template
C9_Witness ==
    /\ \E p \in DOMAIN programs : programs[p].status = "completed"
    /\ \E p \in DOMAIN programs :
          /\ programs[p].status = "draft"
          /\ p \in DOMAIN problems /\ problems[p].is_completed = "true"

\* C10: generate_pdf sets status to "completed" when current_step = 5,
\* leaves status unchanged otherwise, and never changes current_step.
C10_FinalizeFrame ==
    (last.op = "generate_pdf" /\ OnProgram(last))
        => /\ last.post.current_step = last.pre.current_step
           /\ last.post.status = IF last.pre.current_step = 5 THEN "completed"
                                 ELSE last.pre.status
           /\ programs[last.program_id] = last.post

\* a document has been generated for a program at step 5 that was in_progress
C10_Witness ==
    /\ last.op = "generate_pdf"
    /\ last.pre = [current_step |-> 5, status |-> "in_progress"]
    /\ last.post = [current_step |-> 5, status |-> "completed"]



\* ====================================================================
\* Concurrent requests: each request runs in its own AsyncSession, whose
\* queries and commit are separate steps (PostgreSQL, READ COMMITTED)
\* ====================================================================

MaxRequests == 3

\* the handlers that run concurrently
CompletionOps ==
    {"update_problem_statement", "complete_stakeholder_step",
     "complete_models_step", "complete_indicators_step"}
ConcurrentOps == CompletionOps \cup {"delete_stakeholder"}

\* the step n whose completion a handler performs
StepOf(op) ==
    CASE op = "update_problem_statement" -> 1
      [] op = "complete_stakeholder_step" -> 2
      [] op = "complete_models_step" -> 3
      [] op = "complete_indicators_step" -> 4
      [] OTHER -> 0

\* the ids a handler's path parameter ranges over
TargetsOf(op) == IF op = "delete_stakeholder" THEN StakeholderIds ELSE ProgramIds

\* the Program object of a session after the handler's assignments: the row
\* it loaded, advanced when the loaded current_step is the handler's step
Assigned(op, seen) ==
    IF seen = NoProgram THEN seen
    ELSE IF op = "update_problem_statement" THEN AdvanceFromProblem(seen)
    ELSE AdvanceFrom(seen, StepOf(op))

\* faulty variant: the UPDATE adds the object's increment to the stored value
Flush_Relative(row, old, new) ==
    [row EXCEPT !.current_step = @ + (new.current_step - old.current_step),
                !.status = IF new.status # old.status THEN new.status ELSE @]

\* the UPDATE a flush emits for a loaded object: the columns whose value the
\* handler changed are written as assigned, the others are left as stored
Flush(row, old, new) ==
    [c \in DOMAIN row |-> IF new[c] # old[c] THEN new[c] ELSE row[c]]

\* a session record with its program counter moved
Moved(ses, pc, code) == [ses EXCEPT !.pc = pc, !.code = code]

\* a request arrives and its handler runs its first query: db.get(Program),
\* db.get(Stakeholder) or the select of the problem statement; 404 when the
\* row is missing
first_query(op, t) ==
    /\ Len(sessions) < MaxRequests
    /\ LET found == CASE op = "delete_stakeholder" -> t \in DOMAIN stakeholders
                      [] op = "update_problem_statement" -> t \in DOMAIN problems
                      [] OTHER -> t \in DOMAIN programs
           next_pc == CASE op = "delete_stakeholder" -> "commit"
                        [] op = "update_problem_statement" -> "get"
                        [] op = "complete_models_step" -> "commit"
                        [] OTHER -> "gate"
       IN sessions' = Append(sessions,
              [op |-> op, target |-> t,
               pc |-> IF found THEN next_pc ELSE "done",
               seen |-> IF op \in {"delete_stakeholder", "update_problem_statement"}
                        THEN NoProgram ELSE ProgramOf(t),
               code |-> IF found THEN 0 ELSE 404,
               body |-> NoProgram])
    /\ UNCHANGED <<programs, problems, stakeholders, program_models, outcomes,
                   indicators, documents, finalized, last, catalog, search>>
    /\ UNCHANGED <<comments_store, versions_store, version_counters>>

\* update_problem_statement: program = await db.get(Program, program_id)
get_program(r) ==
    /\ r \in DOMAIN sessions
    /\ sessions[r].pc = "get"
    /\ sessions' = [sessions EXCEPT ![r].seen = ProgramOf(sessions[r].target),
                                    ![r].pc = "commit"]
    /\ UNCHANGED <<programs, problems, stakeholders, program_models, outcomes,
                   indicators, documents, finalized, last, catalog, search>>
    /\ UNCHANGED <<comments_store, versions_store, version_counters>>

\* the gate query of complete_stakeholder_step and complete_indicators_step,
\* and the select of create_problem_statement for an existing statement
gate_query(r) ==
    /\ r \in DOMAIN sessions
    /\ sessions[r].pc = "gate"
    /\ LET ses == sessions[r]
           empty == IF ses.op = "complete_stakeholder_step"
                    THEN NoStakeholder(ses.target) ELSE NoOutcome(ses.target)
           exists == ses.op = "create_problem_statement" /\ ses.target \in DOMAIN problems
       IN sessions' = [sessions EXCEPT ![r] =
              IF ses.op = "create_problem_statement"
              THEN IF exists THEN Moved(ses, "done", 400) ELSE Moved(ses, "commit", 0)
              ELSE IF empty THEN Moved(ses, "done", 400) ELSE Moved(ses, "commit", 0)]
    /\ UNCHANGED <<programs, problems, stakeholders, program_models, outcomes,
                   indicators, documents, finalized, last, catalog, search>>
    /\ UNCHANGED <<comments_store, versions_store, version_counters>>

\* faulty variant: problem_statements.program_id carries no unique constraint
InsertProblem_NoUnique(table, p) ==
    IF p \in DOMAIN table
    THEN [table EXCEPT ![p].rows = @ + 1]
    ELSE table @@ (p :> [is_completed |-> "false", rows |-> 1])

\* INSERT INTO problem_statements: a second row for the program violates the
\* unique constraint on program_id and nothing is stored
InsertProblem(table, p) ==
    IF p \in DOMAIN table
    THEN table
    ELSE table @@ (p :> [is_completed |-> "false", rows |-> 1])

\* await db.commit(): the pending changes of the session are flushed and
\* committed; the IntegrityError of a rejected INSERT is answered 500
commit(r) ==
    /\ r \in DOMAIN sessions
    /\ sessions[r].pc = "commit"
    /\ LET ses == sessions[r]
           t == ses.target
       IN /\ stakeholders' = IF ses.op = "delete_stakeholder" /\ t \in DOMAIN stakeholders
                             THEN Without(stakeholders, t) ELSE stakeholders
          /\ problems' = IF ses.op = "update_problem_statement" /\ t \in DOMAIN problems
                         THEN [problems EXCEPT ![t].is_completed = "true"]
                         ELSE IF ses.op = "create_problem_statement"
                         THEN InsertProblem(problems, t)
                         ELSE problems
          /\ programs' = IF ses.op \in CompletionOps /\ t \in DOMAIN programs
                            /\ ses.seen # NoProgram
                         THEN [programs EXCEPT
                                  ![t] = Flush(@, ses.seen, Assigned(ses.op, ses.seen))]
                         ELSE programs
          /\ sessions' = [sessions EXCEPT ![r] =
                 IF ses.op = "delete_stakeholder"
                 THEN Moved(ses, "done", 204)
                 ELSE IF ses.op = "create_problem_statement" /\ t \in DOMAIN problems
                 THEN Moved(ses, "done", 500)
                 ELSE Moved(ses, "refresh", 0)]
    /\ UNCHANGED <<program_models, outcomes, indicators, documents, finalized,
                   last, catalog, search>>
    /\ UNCHANGED <<comments_store, versions_store, version_counters>>

\* await db.refresh(...) and the response: the body of a ProgramResponse is
\* the row as stored now
refresh(r) ==
    /\ r \in DOMAIN sessions
    /\ sessions[r].pc = "refresh"
    /\ sessions' = [sessions EXCEPT
           ![r].pc = "done",
           ![r].code = IF sessions[r].op = "create_problem_statement" THEN 201 ELSE 200,
           ![r].body = IF sessions[r].op \in {"update_problem_statement",
                                              "create_problem_statement"}
                       THEN NoProgram ELSE ProgramOf(sessions[r].target)]
    /\ UNCHANGED <<programs, problems, stakeholders, program_models, outcomes,
                   indicators, documents, finalized, last, catalog, search>>
    /\ UNCHANGED <<comments_store, versions_store, version_counters>>

\* the stored states the concurrent requests start from: program 1 at any
\* step below 5, its problem statement, with or without a stakeholder and
\* an outcome
InitConc ==
    /\ \E n \in 1..4 :
          /\ programs = (1 :> [current_step |-> n,
                               status |-> IF n = 1 THEN "draft" ELSE "in_progress"])
          /\ problems = (1 :> [is_completed |-> IF n = 1 THEN "false" ELSE "true",
                               rows |-> 1])
    /\ stakeholders \in {<<>>, (1 :> 1)}
    /\ outcomes \in {<<>>, (1 :> 1)}
    /\ program_models = <<>>
    /\ indicators = <<>>
    /\ documents = <<>>
    /\ finalized = {}
    /\ last = [op |-> "init", program_id |-> 0, step |-> 0, arg |-> "unset",
               code |-> 0, pre |-> NoProgram, post |-> NoProgram,
               body |-> NoProgram, repeat_of |-> 0]
    /\ sessions = <<>>
    /\ catalog = SeedCatalog
    /\ search = NoSearch
    /\ comments_store = <<>>
    /\ versions_store = <<>>
    /\ version_counters = <<>>

NextConc ==
    \/ \E op \in ConcurrentOps : \E t \in TargetsOf(op) : first_query(op, t)
    \/ \E r \in 1..MaxRequests : get_program(r)
    \/ \E r \in 1..MaxRequests : gate_query(r)
    \/ \E r \in 1..MaxRequests : commit(r)
    \/ \E r \in 1..MaxRequests : refresh(r)

SpecConc == InitConc /\ [][NextConc]_vars

\* every request received so far has been answered
AllAnswered == \A r \in DOMAIN sessions : sessions[r].pc = "done"

\* C11: when exactly two requests complete the same step n of the same
\* program, at least one of them having read current_step = n, with the
\* gating entity present, then under every interleaving current_step ends
\* at n + 1 and both requests are answered 200, their bodies showing n + 1.
C11_ConcurrentSameStep ==
    (/\ Len(sessions) = 2 /\ AllAnswered
     /\ sessions[1].op \in CompletionOps
     /\ sessions[2].op = sessions[1].op
     /\ sessions[2].target = sessions[1].target
     /\ sessions[1].target \in DOMAIN programs
     /\ GateEntityExists(sessions[1].target, StepOf(sessions[1].op))
     /\ \E r \in 1..2 : sessions[r].seen.current_step = StepOf(sessions[1].op))
        => LET n == StepOf(sessions[1].op) IN
           /\ programs[sessions[1].target].current_step = n + 1
           /\ \A r \in 1..2 :
                 /\ sessions[r].code = 200
                 /\ n >= 2 => sessions[r].body.current_step = n + 1

\* two requests completing step 2 have both read current_step = 2 before
\* either committed, and both have been answered
C11_Witness ==
    /\ Len(sessions) = 2 /\ AllAnswered
    /\ \A r \in 1..2 :
          /\ sessions[r].op = "complete_stakeholder_step"
          /\ sessions[r].target = 1
          /\ sessions[r].seen.current_step = 2
          /\ sessions[r].code = 200
    /\ programs[1].current_step = 3

\* C12 as claimed: under every interleaving of concurrent completion
\* requests for one program, the committed current_step never decreases.
C12_CommittedStepNeverDecreases ==
    [][\A p \in DOMAIN programs :
          programs'[p].current_step >= programs[p].current_step]_vars

\* C13 as claimed: no interleaving of complete_step(p, 2) with
\* delete_stakeholder commits the change of current_step from 2 to 3 while
\* the program has no stakeholder.
C13_GateHoldsAtCommit ==
    [][\A p \in DOMAIN programs :
          (programs[p].current_step = 2 /\ programs'[p].current_step = 3)
              => StakeholdersOf(p) # {}]_vars

\* ====================================================================
\* Requests that name a missing program
\* ====================================================================

\* C14: a step completion or a document generation that names a program id
\* which does not exist is answered 404 and changes no stored row.
C14_MissingProgramIs404 ==
    [][((CompleteStepCall(last') \/ last'.op = "generate_pdf")
           /\ last'.program_id \notin DOMAIN programs)
          => /\ last'.code = 404
             /\ UNCHANGED <<programs, problems, stakeholders, program_models,
                            outcomes, indicators, documents>>]_vars

\* a document generation for a missing program has been refused while
\* another program exists and a document can still be recorded
C14_Witness ==
    /\ last.op = "generate_pdf"
    /\ last.code = 404
    /\ last.program_id \notin DOMAIN programs
    /\ DOMAIN programs # {}
    /\ DOMAIN documents # DocumentIds

\* ====================================================================
\* Model recommendation search (services/rag_service.py, routers/ai.py)
\* ====================================================================

MaxCatalog == 4
MaxLimit == 2
MaxFaultyCatalog == 1

\* the catalogs: table proven_models as the sequence of its rows in the
\* order a scan returns them
Catalogs ==
    {c \in UNION {[1..n -> DOMAIN ModelPool] : n \in 0..MaxCatalog} :
        \A i, j \in DOMAIN c : i # j => c[i] # c[j]}

\* inputs of a search: the query text, the limit (SearchModelsRequest.limit
\* is at least 1) and the theme filter ("": none)
Queries == {<<"A", "B">>, <<"d">>, <<"z">>}
Limits == 1..MaxLimit
ThemeFilters == {"", "FLN", "STEM"}

\* outcomes of get_ai_service() and ai_service.get_embedding(query): an
\* embedding of the query, or one of the three failures
QueryVectors == {<<1, 0>>, <<-1, 1>>}
EmbedFailures == {"not_configured", "not_supported", "provider_error"}
EmbedOutcomes ==
    {[status |-> "ok", vector |-> v] : v \in QueryVectors}
        \cup {[status |-> f, vector |-> <<>>] : f \in EmbedFailures}

\* outcomes of a statement sent to the database
QueryOutcomes == {"ok", "error"}

\* str.lower() and the case folding of ILIKE
Lower(ch) ==
    CASE ch = "A" -> "a" [] ch = "B" -> "b" [] ch = "C" -> "c" [] ch = "D" -> "d"
      [] OTHER -> ch
LowerText(t) == [i \in DOMAIN t |-> Lower(t[i])]

\* text LIKE pattern, "%" matching any run of characters
RECURSIVE Like(_, _)
Like(t, pat) ==
    IF pat = <<>> THEN t = <<>>
    ELSE IF Head(pat) = "%"
         THEN Like(t, Tail(pat)) \/ (t # <<>> /\ Like(Tail(t), pat))
         ELSE t # <<>> /\ Head(t) = Head(pat) /\ Like(Tail(t), Tail(pat))

\* column.ilike(pattern)
ILike(t, pat) == Like(LowerText(t), LowerText(pat))

\* query_lower = f"%{query.lower()}%"
QueryLower(q) == <<"%">> \o LowerText(q) \o <<"%">>

\* the WHERE clause of keyword_search: name or description ILIKE the
\* pattern, or the pattern equal to an element of target_outcomes
KeywordMatch(m, q) ==
    \/ ILike(m.name, QueryLower(q))
    \/ ILike(m.description, QueryLower(q))
    \/ QueryLower(q) \in m.target_outcomes

\* if theme_filter: ... theme = ANY(themes)
ThemeMatch(m, theme) == theme = "" \/ theme \in m.themes

\* LIMIT n
Take(rows, n) == SubSeq(rows, 1, IF n < Len(rows) THEN n ELSE Len(rows))

\* faulty variant: LIMIT is applied to the keyword matches before the theme filter
keyword_search_LimitFirst(cat, q, limit, theme) ==
    SelectSeq(Take(SelectSeq(cat, LAMBDA id : KeywordMatch(ModelPool[id], q)), limit),
              LAMBDA id : ThemeMatch(ModelPool[id], theme))

\* keyword_search(db, query, limit, theme_filter)
keyword_search(cat, q, limit, theme) ==
    Take(SelectSeq(cat, LAMBDA id : /\ KeywordMatch(ModelPool[id], q)
                                    /\ ThemeMatch(ModelPool[id], theme)),
         limit)

Dot(u, v) == u[1] * v[1] + u[2] * v[2]

\* a <=> v < b <=> v: the cosine distance of a to v is smaller than that of
\* b, compared exactly on the cosines' numerators and squared norms
Closer(v, a, b) ==
    LET x == Dot(v, a)
        y == Dot(v, b)
        na == Dot(a, a)
        nb == Dot(b, b)
    IN IF x >= 0 /\ y < 0 THEN TRUE
       ELSE IF x < 0 /\ y >= 0 THEN FALSE
       ELSE IF x >= 0 THEN x * x * nb > y * y * na
       ELSE x * x * nb < y * y * na

\* faulty variant: a row is placed before the first row that is closer
RECURSIVE Insert_Farthest(_, _, _)
Insert_Farthest(id, sorted, v) ==
    IF sorted = <<>> THEN <<id>>
    ELSE IF Closer(v, ModelPool[Head(sorted)].embedding, ModelPool[id].embedding)
         THEN <<id>> \o sorted
         ELSE <<Head(sorted)>> \o Insert_Farthest(id, Tail(sorted), v)

\* ORDER BY distance: a row is placed before the first row that is farther
RECURSIVE Insert(_, _, _)
Insert(id, sorted, v) ==
    IF sorted = <<>> THEN <<id>>
    ELSE IF Closer(v, ModelPool[id].embedding, ModelPool[Head(sorted)].embedding)
         THEN <<id>> \o sorted
         ELSE <<Head(sorted)>> \o Insert(id, Tail(sorted), v)

RECURSIVE OrderByDistance(_, _)
OrderByDistance(rows, v) ==
    IF rows = <<>> THEN <<>>
    ELSE Insert(rows[Len(rows)], OrderByDistance(SubSeq(rows, 1, Len(rows) - 1), v), v)

\* the similarity query: WHERE embedding IS NOT NULL [AND :theme =
\* ANY(themes)] ORDER BY distance LIMIT :limit
similarity_query(cat, v, limit, theme) ==
    Take(OrderByDistance(
             SelectSeq(cat, LAMBDA id : /\ ModelPool[id].embedding # <<>>
                                        /\ ThemeMatch(ModelPool[id], theme)),
             v),
         limit)

\* faulty variant: the fallback calls keyword_search without the theme filter
search_models_UnfilteredFallback(cat, q, limit, theme, emb, simq, kwq) ==
    IF emb.status = "ok" /\ simq = "ok"
    THEN [raised |-> FALSE, path |-> "semantic",
          result |-> similarity_query(cat, emb.vector, limit, theme)]
    ELSE IF kwq = "ok"
    THEN [raised |-> FALSE, path |-> "keyword",
          result |-> keyword_search(cat, q, limit, "")]
    ELSE [raised |-> TRUE, path |-> "keyword", result |-> <<>>]

\* RAGService.search_models: the rows of the similarity query when the
\* embedding call and the query succeed; on any exception the result of
\* keyword_search, whose own exception propagates
search_models(cat, q, limit, theme, emb, simq, kwq) ==
    IF emb.status = "ok" /\ simq = "ok"
    THEN [raised |-> FALSE, path |-> "semantic",
          result |-> similarity_query(cat, emb.vector, limit, theme)]
    ELSE IF kwq = "ok"
    THEN [raised |-> FALSE, path |-> "keyword",
          result |-> keyword_search(cat, q, limit, theme)]
    ELSE [raised |-> TRUE, path |-> "keyword", result |-> <<>>]

\* the record of an answered search
Searched(op, q, limit, theme, emb, out, code) ==
    [op |-> op, query |-> q, limit |-> limit, theme |-> theme, embed |-> emb,
     path |-> out.path, raised |-> out.raised, code |-> code,
     result |-> out.result]

\* a call of rag_service.search_models(db, query, limit, theme_filter)
call_search_models(q, limit, theme, emb, simq, kwq) ==
    /\ search' = Searched("search_models", q, limit, theme, emb,
                          search_models(catalog, q, limit, theme, emb, simq, kwq), 0)
    /\ UNCHANGED <<programs, problems, stakeholders, program_models, outcomes,
                   indicators, documents, finalized, last, sessions, catalog>>
    /\ UNCHANGED <<comments_store, versions_store, version_counters>>

\* POST /api/ai/search-models: search_models without a theme filter; an
\* exception is answered 500
search_proven_models(q, limit, emb, simq, kwq) ==
    /\ LET out == search_models(catalog, q, limit, "", emb, simq, kwq) IN
          search' = Searched("search_proven_models", q, limit, "", emb, out,
                             IF out.raised THEN 500 ELSE 200)
    /\ UNCHANGED <<programs, problems, stakeholders, program_models, outcomes,
                   indicators, documents, finalized, last, sessions, catalog>>
    /\ UNCHANGED <<comments_store, versions_store, version_counters>>

InitSearch ==
    /\ programs = <<>>
    /\ problems = <<>>
    /\ stakeholders = <<>>
    /\ program_models = <<>>
    /\ outcomes = <<>>
    /\ indicators = <<>>
    /\ documents = <<>>
    /\ finalized = {}
    /\ last = [op |-> "init", program_id |-> 0, step |-> 0, arg |-> "unset",
               code |-> 0, pre |-> NoProgram, post |-> NoProgram,
               body |-> NoProgram, repeat_of |-> 0]
    /\ sessions = <<>>
    /\ catalog \in Catalogs
    /\ search = NoSearch
    /\ comments_store = <<>>
    /\ versions_store = <<>>
    /\ version_counters = <<>>

\* searches against a database whose statements execute
NextSearch ==
    \/ \E q \in Queries, limit \in Limits, theme \in ThemeFilters, emb \in EmbedOutcomes :
           call_search_models(q, limit, theme, emb, "ok", "ok")
    \/ \E q \in Queries, limit \in Limits, emb \in EmbedOutcomes :
           search_proven_models(q, limit, emb, "ok", "ok")

SpecSearch == InitSearch /\ [][NextSearch]_vars

\* the searches whose statements may fail run against the catalogs of at most
\* MaxFaultyCatalog rows
InitSearchFaulty ==
    /\ InitSearch
    /\ Len(catalog) <= MaxFaultyCatalog

\* searches against a database whose statements may fail
NextSearchFaulty ==
    \/ \E q \in Queries, limit \in Limits, theme \in ThemeFilters, emb \in EmbedOutcomes,
          simq \in QueryOutcomes, kwq \in QueryOutcomes :
           call_search_models(q, limit, theme, emb, simq, kwq)
    \/ \E q \in Queries, limit \in Limits, emb \in EmbedOutcomes,
          simq \in QueryOutcomes, kwq \in QueryOutcomes :
           search_proven_models(q, limit, emb, simq, kwq)

SpecSearchFaulty == InitSearchFaulty /\ [][NextSearchFaulty]_vars

\* the embedding of a returned or stored model
EmbeddingOf(id) == ModelPool[id].embedding

\* C15: with a working embedding provider, search_models returns at most
\* limit models of the catalog, each with a stored embedding, in ascending
\* order of cosine distance to the query embedding, and no omitted model
\* with a stored embedding (that passes the theme filter, if one is given)
\* is closer than a returned one.
C15_SemanticNearest ==
    search.path = "semantic"
        => LET res == search.result
               v == search.embed.vector
           IN /\ Len(res) <= search.limit
              /\ \A i \in DOMAIN res :
                    /\ \E k \in DOMAIN catalog : catalog[k] = res[i]
                    /\ EmbeddingOf(res[i]) # <<>>
              /\ \A i, j \in DOMAIN res :
                    i < j => /\ res[i] # res[j]
                             /\ ~Closer(v, EmbeddingOf(res[j]), EmbeddingOf(res[i]))
              /\ \A k \in DOMAIN catalog :
                    (/\ \A i \in DOMAIN res : res[i] # catalog[k]
                     /\ EmbeddingOf(catalog[k]) # <<>>
                     /\ ThemeMatch(ModelPool[catalog[k]], search.theme))
                        => \A i \in DOMAIN res :
                              ~Closer(v, EmbeddingOf(catalog[k]), EmbeddingOf(res[i]))

\* a search without theme filter has returned two models at different
\* distances, leaving out a model with an embedding and one without
C15_Witness ==
    /\ search.path = "semantic" /\ search.theme = ""
    /\ Len(search.result) = 2
    /\ Closer(search.embed.vector, EmbeddingOf(search.result[1]),
              EmbeddingOf(search.result[2]))
    /\ \E k \in DOMAIN catalog :
          /\ EmbeddingOf(catalog[k]) # <<>>
          /\ \A i \in DOMAIN search.result : search.result[i] # catalog[k]
    /\ \E k \in DOMAIN catalog : EmbeddingOf(catalog[k]) = <<>>

\* C16: when the embedding call fails (provider not configured, no
\* embedding support, provider error), search_models does not raise and
\* returns the result of keyword_search for the same query, limit and theme
\* filter: at most limit models, each matching the query and the filter.
C16_FallbackOnEmbeddingFailure ==
    search.embed.status \in EmbedFailures
        => /\ ~search.raised
           /\ search.path = "keyword"
           /\ search.result
                 = keyword_search(catalog, search.query, search.limit, search.theme)
           /\ Len(search.result) <= search.limit
           /\ \A i \in DOMAIN search.result :
                 /\ KeywordMatch(ModelPool[search.result[i]], search.query)
                 /\ ThemeMatch(ModelPool[search.result[i]], search.theme)

\* a search with a theme filter whose embedding call failed has returned a
\* model by keyword while a model matching the query fails the filter
C16_Witness ==
    /\ search.embed.status = "not_configured"
    /\ search.theme = "FLN"
    /\ Len(search.result) = 1
    /\ \E k \in DOMAIN catalog :
          /\ KeywordMatch(ModelPool[catalog[k]], search.query)
          /\ ~ThemeMatch(ModelPool[catalog[k]], search.theme)

\* C17 as claimed: for every outcome of the embedding call, of the
\* similarity query and of the keyword query, search_models does not raise
\* and the endpoint does not answer with an error status.
C17_SearchNeverFails ==
    search.op # "none" => ~search.raised /\ search.code # 500

\* C18 as claimed: when the embedding call succeeds and the similarity
\* query yields no rows, the result is that of the keyword search.
C18_EmptySemanticFallsBack ==
    (/\ search.embed.status = "ok"
     /\ similarity_query(catalog, search.embed.vector, search.limit, search.theme) = <<>>)
        => search.result
              = keyword_search(catalog, search.query, search.limit, search.theme)

\* ====================================================================
\* Program deletion (DELETE /api/programs/{program_id})
\* ====================================================================

\* the rows of a table that do not belong to one of the owners
RowsNotOf(table, owners) ==
    [k \in {x \in DOMAIN table : table[x] \notin owners} |-> table[k]]

\* the associations that are not those of program p
AssociationsNotOf(p) ==
    [k \in {x \in DOMAIN program_models : program_models[x].program_id # p}
        |-> program_models[k]]

\* faulty variant: Outcome.indicators does not cascade
delete_program_KeepsIndicators(p) ==
    /\ IF p \notin DOMAIN programs
       THEN /\ last' = Response("delete_program", p, 0, "unset", 404,
                                NoProgram, NoProgram, NoProgram)
            /\ UNCHANGED <<programs, problems, stakeholders, program_models,
                           outcomes, indicators, documents, finalized>>
       ELSE /\ programs' = Without(programs, p)
            /\ problems' = Without(problems, p)
            /\ stakeholders' = RowsNotOf(stakeholders, {p})
            /\ program_models' = AssociationsNotOf(p)
            /\ outcomes' = RowsNotOf(outcomes, {p})
            /\ indicators' = indicators
            /\ documents' = RowsNotOf(documents, {p})
            /\ finalized' = finalized \ {p}
            /\ last' = Response("delete_program", p, 0, "unset", 204,
                                programs[p], NoProgram, NoProgram)
    /\ UNCHANGED <<sessions, catalog, search>>
    /\ UNCHANGED <<comments_store, versions_store, version_counters>>

\* DELETE /api/programs/{program_id}: db.delete(program) cascades over the
\* relationships of Program and over Outcome.indicators
delete_program(p) ==
    /\ IF p \notin DOMAIN programs
       THEN /\ last' = Response("delete_program", p, 0, "unset", 404,
                                NoProgram, NoProgram, NoProgram)
            /\ UNCHANGED <<programs, problems, stakeholders, program_models,
                           outcomes, indicators, documents, finalized>>
       ELSE /\ programs' = Without(programs, p)
            /\ problems' = Without(problems, p)
            /\ stakeholders' = RowsNotOf(stakeholders, {p})
            /\ program_models' = AssociationsNotOf(p)
            /\ outcomes' = RowsNotOf(outcomes, {p})
            /\ indicators' = RowsNotOf(indicators, OutcomesOf(p))
            /\ documents' = RowsNotOf(documents, {p})
            /\ finalized' = finalized \ {p}
            /\ last' = Response("delete_program", p, 0, "unset", 204,
                                programs[p], NoProgram, NoProgram)
    /\ UNCHANGED <<sessions, catalog, search>>
    /\ UNCHANGED <<comments_store, versions_store, version_counters>>

NextDelete ==
    \/ Next
    \/ \E p \in ProgramIds : delete_program(p)

SpecDelete == Init /\ [][NextDelete]_vars

\* the rows of a table whose owner is not in the set, as a set of pairs
OthersRows(table, owners) ==
    {<<k, table[k]>> : k \in {x \in DOMAIN table : table[x] \notin owners}}

\* C19: delete_program(p) on an existing program removes the program, its
\* problem statement, stakeholders, proven-model associations, outcomes,
\* the indicators of those outcomes and its documents; the rows of every
\* other program and the catalog of proven models are unchanged.
C19_DeleteCascades ==
    [][(last'.op = "delete_program" /\ last'.program_id \in DOMAIN programs)
          => LET p == last'.program_id IN
             /\ last'.code = 204
             /\ p \notin DOMAIN programs'
             /\ p \notin DOMAIN problems'
             /\ \A s \in DOMAIN stakeholders' : stakeholders'[s] # p
             /\ \A a \in DOMAIN program_models' : program_models'[a].program_id # p
             /\ \A o \in DOMAIN outcomes' : outcomes'[o] # p
             /\ \A i \in DOMAIN indicators' :
                   /\ indicators'[i] \in DOMAIN outcomes'
                   /\ outcomes[indicators[i]] # p
             /\ \A d \in DOMAIN documents' : documents'[d] # p
             /\ \A q \in DOMAIN programs \ {p} :
                   /\ q \in DOMAIN programs' /\ programs'[q] = programs[q]
                   /\ (q \in DOMAIN problems)
                         => (q \in DOMAIN problems' /\ problems'[q] = problems[q])
             /\ OthersRows(stakeholders', {p}) = OthersRows(stakeholders, {p})
             /\ OthersRows(outcomes', {p}) = OthersRows(outcomes, {p})
             /\ OthersRows(documents', {p}) = OthersRows(documents, {p})
             /\ OthersRows(indicators', OutcomesOf(p)) = OthersRows(indicators, OutcomesOf(p))
             /\ \A a \in DOMAIN program_models :
                   program_models[a].program_id # p
                      => (a \in DOMAIN program_models'
                            /\ program_models'[a] = program_models[a])
             /\ catalog' = catalog]_vars

\* a program beyond step 1 has been deleted; another program and its
\* stakeholder are still stored
C19_Witness ==
    /\ last.op = "delete_program" /\ last.code = 204
    /\ last.pre.current_step >= 2
    /\ last.program_id \notin DOMAIN programs
    /\ DOMAIN programs # {}
    /\ \E s \in DOMAIN stakeholders : stakeholders[s] \in DOMAIN programs

\* ====================================================================
\* Program update (PATCH /api/programs/{program_id})
\* ====================================================================

\* the value standing for None (NULL) in column current_step: it equals no
\* step number, as None equals none in the handlers' comparisons
NullStep == -1

\* ProgramUpdate.current_step: Optional[int], ge = 1, le = 5; 0: not sent;
\* NullStep: sent as null, which the Optional type accepts
CurrentStepInputs == (0..5) \cup {NullStep}

\* ProgramUpdate.status: any string, or not sent; the CHECK constraint of
\* table programs admits the first three
StatusValues == {"draft", "in_progress", "completed"}
StatusInputs == {"unset"} \cup StatusValues \cup {"archived"}

\* setattr(program, key, value) for the keys that were sent
Patched(prog, cs, st) ==
    [current_step |-> IF cs = 0 THEN prog.current_step ELSE cs,
     status |-> IF st = "unset" THEN prog.status ELSE st]

\* PATCH /api/programs/{program_id}; a status outside the CHECK constraint
\* fails the commit, which is answered 500 and stores nothing; a NULL
\* current_step passes the CHECK constraint and is committed, and the
\* response, whose current_step is an int, fails to serialise (500)
update_program(p, cs, st) ==
    /\ IF p \notin DOMAIN programs
       THEN /\ last' = Response("update_program", p, 0, "unset", 404,
                                NoProgram, NoProgram, NoProgram)
            /\ UNCHANGED programs
       ELSE IF Patched(programs[p], cs, st).status \notin StatusValues
       THEN /\ last' = Response("update_program", p, 0, "unset", 500,
                                programs[p], programs[p], NoProgram)
            /\ UNCHANGED programs
       ELSE /\ programs' = [programs EXCEPT ![p] = Patched(@, cs, st)]
            /\ last' = IF programs'[p].current_step = NullStep
                       THEN Response("update_program", p, 0, "unset", 500,
                                     programs[p], programs'[p], NoProgram)
                       ELSE Response("update_program", p, 0, "unset", 200,
                                     programs[p], programs'[p], programs'[p])
    /\ UNCHANGED <<problems, stakeholders, program_models, outcomes,
                   indicators, documents, finalized>>
    /\ UNCHANGED <<sessions, catalog, search>>
    /\ UNCHANGED <<comments_store, versions_store, version_counters>>

\* the state after the first POST /api/programs/ on the empty database
InitPatch ==
    /\ programs = (1 :> NewProgram)
    /\ problems = <<>>
    /\ stakeholders = <<>>
    /\ program_models = <<>>
    /\ outcomes = <<>>
    /\ indicators = <<>>
    /\ documents = <<>>
    /\ finalized = {}
    /\ last = [op |-> "create_program", program_id |-> 1, step |-> 0,
               arg |-> "unset", code |-> 201, pre |-> NoProgram,
               post |-> NewProgram, body |-> NewProgram, repeat_of |-> 0]
    /\ sessions = <<>>
    /\ catalog = SeedCatalog
    /\ search = NoSearch
    /\ comments_store = <<>>
    /\ versions_store = <<>>
    /\ version_counters = <<>>

\* the program API with update_program, on the programs that exist
NextPatch ==
    \/ \E p \in ProgramIds, cs \in CurrentStepInputs, st \in StatusInputs :
           update_program(p, cs, st)
    \/ \E p \in ProgramIds : create_problem_statement(p)
    \/ \E p \in ProgramIds, ic \in IsCompletedInputs : update_problem_statement(p, ic)
    \/ \E p \in ProgramIds : add_stakeholder(p)
    \/ \E s \in StakeholderIds : delete_stakeholder(s)
    \/ \E p \in ProgramIds : complete_stakeholder_step(p)
    \/ \E p \in ProgramIds : complete_models_step(p)
    \/ \E p \in ProgramIds : create_outcome(p)
    \/ \E p \in ProgramIds : complete_indicators_step(p)
    \/ \E p \in ProgramIds : generate_pdf(p)

SpecPatch == InitPatch /\ [][NextPatch]_vars

\* C20 as claimed: across any sequence of program API operations that
\* includes update_program, current_step of a program never decreases and
\* every change of it is an increase of exactly one.
C20_StepMonotoneWithPatch ==
    [][\A p \in DOMAIN programs \cap DOMAIN programs' :
          programs'[p].current_step
              \in {programs[p].current_step, programs[p].current_step + 1}]_vars

\* C21 as claimed: in every reachable state, update_program included,
\* current_step of every program is an integer in 1..5.
C21_StepInRange ==
    \A p \in DOMAIN programs : programs[p].current_step \in 1..5

\* C22 as claimed: generate_pdf renders and records a document only for a
\* program whose current_step is 5.
C22_DocumentOnlyAtStep5 ==
    [][\A d \in DOMAIN documents' \ DOMAIN documents :
          /\ documents'[d] \in DOMAIN programs
          /\ programs[documents'[d]].current_step = 5]_vars

\* the rows of the catalog that the path of the answered search selects from
\* when the theme filter is applied: the rows with the theme that have an
\* embedding (semantic path) or match the keyword clause (keyword path)
Eligible ==
    {k \in DOMAIN catalog :
        /\ ThemeMatch(ModelPool[catalog[k]], search.theme)
        /\ IF search.path = "semantic"
           THEN EmbeddingOf(catalog[k]) # <<>>
           ELSE KeywordMatch(ModelPool[catalog[k]], search.query)}

\* C23: when a theme filter is given, on the semantic path and on the
\* keyword path alike every model returned has the theme among its themes,
\* and the filter is applied before the limit: the number of models
\* returned is the smaller of limit and the number of rows that pass.
C23_ThemeFilterBeforeLimit ==
    (search.op # "none" /\ search.theme # "" /\ ~search.raised)
        => /\ \A i \in DOMAIN search.result :
                 search.theme \in ModelPool[search.result[i]].themes
           /\ Len(search.result)
                 = IF Cardinality(Eligible) < search.limit
                   THEN Cardinality(Eligible) ELSE search.limit

\* a keyword search with a theme filter has returned as many models as the
\* limit allows, the first row that matches the query lacking the theme
C23_Witness ==
    /\ search.path = "keyword" /\ search.theme = "FLN" /\ ~search.raised
    /\ search.limit = 1
    /\ Len(search.result) = 1
    /\ Len(catalog) >= 2
    /\ KeywordMatch(ModelPool[catalog[1]], search.query)
    /\ ~ThemeMatch(ModelPool[catalog[1]], search.theme)

\* text t contains query q as a case-insensitive substring
Contains(t, q) ==
    \E i \in 1..(Len(t) - Len(q) + 1) :
        SubSeq(LowerText(t), i, i + Len(q) - 1) = LowerText(q)

\* the name, the description or a target-outcome tag of m contains q
ContainsInSomeField(m, q) ==
    \/ Contains(m.name, q)
    \/ Contains(m.description, q)
    \/ \E tag \in m.target_outcomes : Contains(tag, q)

\* C24 as claimed: the keyword fallback selects exactly the catalog models
\* (passing the theme filter) whose name, description or a target-outcome
\* tag contains the query as a case-insensitive substring: each returned
\* model is one of them, and all of them are returned unless the limit is
\* reached.
C24_KeywordSelectsSubstringMatches ==
    (search.path = "keyword" /\ ~search.raised)
        => /\ \A i \in DOMAIN search.result :
                 ContainsInSomeField(ModelPool[search.result[i]], search.query)
           /\ Len(search.result) < search.limit
                 => \A k \in DOMAIN catalog :
                       (/\ ContainsInSomeField(ModelPool[catalog[k]], search.query)
                        /\ ThemeMatch(ModelPool[catalog[k]], search.theme))
                          => \E i \in DOMAIN search.result :
                                search.result[i] = catalog[k]

\* C25: in every state reachable through program creation, entity
\* additions, step completions, document generation and the deletion of
\* stakeholders and of whole programs (without update_program), a program
\* at current_step 5 has at least one outcome.
C25_Step5HasOutcome ==
    \A p \in DOMAIN programs :
        programs[p].current_step = 5
            => \E o \in DOMAIN outcomes : outcomes[o] = p

\* a program has reached step 5 and been finalized, another program exists
\* below step 5 and has no outcome
C25_Witness ==
    \E p, q \in DOMAIN programs :
        /\ programs[p].current_step = 5 /\ programs[p].status = "completed"
        /\ programs[q].current_step < 5
        /\ \A o \in DOMAIN outcomes : outcomes[o] = p

\* C26 as claimed: in every reachable state a program with current_step of
\* 3 or more has at least one stakeholder.
C26_PastStep2HasStakeholder ==
    \A p \in DOMAIN programs :
        programs[p].current_step >= 3
            => \E s \in DOMAIN stakeholders : stakeholders[s] = p

MaxStaleRequests == 2

\* at most MaxStaleRequests update_problem_statement requests, split at
\* their awaits, interleaved with requests that run from their first query
\* to their response without another request in between
NextStale ==
    \/ /\ Len(sessions) < MaxStaleRequests
       /\ \E p \in ProgramIds : first_query("update_problem_statement", p)
    \/ \E r \in 1..MaxRequests : get_program(r)
    \/ \E r \in 1..MaxRequests : commit(r)
    \/ \E r \in 1..MaxRequests : refresh(r)
    \/ \E p \in ProgramIds, ic \in IsCompletedInputs : update_problem_statement(p, ic)
    \/ \E p \in ProgramIds : complete_stakeholder_step(p)
    \/ \E p \in ProgramIds : complete_models_step(p)
    \/ \E p \in ProgramIds : complete_indicators_step(p)
    \/ \E p \in ProgramIds : generate_pdf(p)

SpecStale == InitConc /\ [][NextStale]_vars

\* C28 as claimed: under every interleaving of a step-1 completion request
\* with requests that advance the program to step 5 and generate its
\* document, the committed status never goes from completed to in_progress,
\* and (current_step, status) never goes from (5, completed) to
\* (2, in_progress).
C28_CompletedNeverReverts ==
    [][\A p \in DOMAIN programs :
          programs[p].status = "completed"
              => /\ programs'[p].status # "in_progress"
                 /\ programs'[p].current_step # 2]_vars

\* ====================================================================
\* Concurrent creation of problem statements
\* ====================================================================

\* create_problem_statement requests split at their awaits, interleaved with
\* create_problem_statement and update_problem_statement requests that run
\* without another request in between
NextCreate ==
    \/ \E p \in ProgramIds : first_query("create_problem_statement", p)
    \/ \E r \in 1..MaxRequests : gate_query(r)
    \/ \E r \in 1..MaxRequests : commit(r)
    \/ \E r \in 1..MaxRequests : refresh(r)
    \/ \E p \in ProgramIds : create_problem_statement(p)
    \/ \E p \in ProgramIds, ic \in IsCompletedInputs : update_problem_statement(p, ic)

SpecCreate == InitPatch /\ [][NextCreate]_vars

\* C29: every program has at most one problem statement; a
\* create_problem_statement request for a program that has one is answered
\* 400 and changes no statement, and no step of a concurrent
\* create_problem_statement request adds a second statement or changes an
\* existing one.
C29_OneProblemStatement ==
    [][/\ \A p \in DOMAIN problems' : problems'[p].rows = 1
       /\ (sessions' = sessions /\ last'.op = "create_problem_statement"
             /\ last'.program_id \in DOMAIN problems)
            => (last'.code = 400 /\ problems' = problems)
       /\ sessions' # sessions
            => \A p \in DOMAIN problems :
                  p \in DOMAIN problems' /\ problems'[p] = problems[p]]_vars

\* two concurrent requests for one program both found no statement; one
\* has created it, the INSERT of the other was rejected
C29_Witness ==
    \E r1, r2 \in DOMAIN sessions :
        /\ sessions[r1].op = "create_problem_statement"
        /\ sessions[r2].op = "create_problem_statement"
        /\ sessions[r1].target = sessions[r2].target
        /\ sessions[r1].code = 201
        /\ sessions[r2].code = 500
        /\ problems[sessions[r1].target].rows = 1

\* ====================================================================
\* Comments and version history (routers/collaboration.py)
\* ====================================================================

MaxComments == 2
MaxVersions == 3

\* the ids uuid4() draws for comments and versions
CommentIds == 1..MaxComments
VersionIds == 1..MaxVersions

\* POST /api/collaboration/comments
add_comment(p) ==
    /\ DOMAIN comments_store # CommentIds
    /\ comments_store' = comments_store @@
           (Fresh(CommentIds, DOMAIN comments_store) :>
               [program_id |-> p, is_resolved |-> FALSE])
    /\ UNCHANGED <<versions_store, version_counters>>
    /\ UNCHANGED <<programs, problems, stakeholders, program_models, outcomes,
                   indicators, documents, finalized, last, sessions, catalog, search>>

\* PATCH /api/collaboration/comments/{comment_id}/resolve; 404 for an
\* unknown comment
resolve_comment(c) ==
    /\ comments_store' = IF c \in DOMAIN comments_store
                         THEN [comments_store EXCEPT ![c].is_resolved = TRUE]
                         ELSE comments_store
    /\ UNCHANGED <<versions_store, version_counters>>
    /\ UNCHANGED <<programs, problems, stakeholders, program_models, outcomes,
                   indicators, documents, finalized, last, sessions, catalog, search>>

\* DELETE /api/collaboration/comments/{comment_id}; 404 for an unknown comment
delete_comment(c) ==
    /\ comments_store' = IF c \in DOMAIN comments_store
                         THEN Without(comments_store, c)
                         ELSE comments_store
    /\ UNCHANGED <<versions_store, version_counters>>
    /\ UNCHANGED <<programs, problems, stakeholders, program_models, outcomes,
                   indicators, documents, finalized, last, sessions, catalog, search>>

\* faulty variant: one counter is shared by all programs
Incremented_Shared(counters, p) ==
    LET top == IF DOMAIN counters = {} THEN 0
               ELSE CHOOSE n \in Range(counters) : \A m \in Range(counters) : m <= n
    IN [q \in DOMAIN counters \cup {p} |-> top + 1]

\* if program_id not in version_counters: version_counters[program_id] = 0
\* version_counters[program_id] += 1
Incremented(counters, p) ==
    IF p \in DOMAIN counters
    THEN [counters EXCEPT ![p] = @ + 1]
    ELSE counters @@ (p :> 1)

\* POST /api/collaboration/versions
create_version(p) ==
    /\ DOMAIN versions_store # VersionIds
    /\ version_counters' = Incremented(version_counters, p)
    /\ versions_store' = versions_store @@
           (Fresh(VersionIds, DOMAIN versions_store) :>
               [program_id |-> p, version_number |-> version_counters'[p]])
    /\ UNCHANGED comments_store
    /\ UNCHANGED <<programs, problems, stakeholders, program_models, outcomes,
                   indicators, documents, finalized, last, sessions, catalog, search>>

NextCollab ==
    \/ \E p \in ProgramIds : add_comment(p)
    \/ \E c \in CommentIds : resolve_comment(c)
    \/ \E c \in CommentIds : delete_comment(c)
    \/ \E p \in ProgramIds : create_version(p)

SpecCollab == Init /\ [][NextCollab]_vars

\* the versions stored for program p, and their numbers
VersionsOf(store, p) == {v \in DOMAIN store : store[v].program_id = p}
NumbersOf(store, p) == {store[v].version_number : v \in VersionsOf(store, p)}

\* C30: after any sequence of create_version calls the version numbers
\* stored for a program are exactly 1..k, without gap or duplicate, k being
\* the number of versions created for it and the value of its counter; a
\* step that creates a version for one program changes neither the counter
\* nor the versions of another, and a step that changes the comments
\* changes no version and no counter.
C30_VersionNumbersDense ==
    [][/\ \A p \in ProgramIds :
             LET k == Cardinality(VersionsOf(versions_store', p)) IN
             /\ NumbersOf(versions_store', p) = 1..k
             /\ k = IF p \in DOMAIN version_counters' THEN version_counters'[p] ELSE 0
       /\ \A p, q \in ProgramIds :
             (p # q /\ VersionsOf(versions_store', p) # VersionsOf(versions_store, p))
                => /\ VersionsOf(versions_store', q) = VersionsOf(versions_store, q)
                   /\ \A v \in VersionsOf(versions_store, q) :
                         versions_store'[v] = versions_store[v]
                   /\ (q \in DOMAIN version_counters')
                        = (q \in DOMAIN version_counters)
                   /\ q \in DOMAIN version_counters
                        => version_counters'[q] = version_counters[q]
       /\ comments_store' # comments_store
             => /\ versions_store' = versions_store
                /\ version_counters' = version_counters]_vars

\* one program has two versions and another has one, while a comment has
\* been resolved
C30_Witness ==
    /\ \E p, q \in ProgramIds :
          /\ p # q
          /\ NumbersOf(versions_store, p) = {1, 2}
          /\ NumbersOf(versions_store, q) = {1}
    /\ \E c \in DOMAIN comments_store : comments_store[c].is_resolved

====
